---- MODULE Spec2Model ----
(***************************************************************************)
(* Segment scheduling and time-accounting engine of the Pomodoro timer:    *)
(* the App component (src/src/App.tsx, second revision, lines 682-1610)    *)
(* and the Timer component (src/unnamed/part_002, second revision, lines   *)
(* 93-246).  Times are in milliseconds, accumulators in seconds.           *)
(*                                                                         *)
(* React semantics that the handlers depend on are kept:                   *)
(*  - a callback sees the state of the render that created it.  The Timer  *)
(*    schedules its poll loop in the effect that runs when isRunning turns *)
(*    true, so the onTimerEnd it calls is the handleTimerEnd of that       *)
(*    render (variable onTimerEnd holds the values that closure sees);     *)
(*  - the recovery effect runs once at mount, so the handleTimerEnd it     *)
(*    calls sees the initial useState values (MountClosure, DefaultCfg);   *)
(*  - passive effects run before the next event is handled, so no event    *)
(*    is taken while pendingAutoStart is set.                              *)
(***************************************************************************)
EXTENDS Integers, Sequences, FiniteSets, TLC

\* ------------------------------------------------------------------ bounds
MaxSteps == 10          \* wall-clock quanta explored
MaxDay == 1             \* midnights explored
MaxRestarts == 1        \* process restarts explored
MaxEvents == 1          \* user and environment interventions explored

\* the wall clock advances in steps of Quantum milliseconds
Quantum == 500

\* ---------------------------------------------------------- configuration
RunModes == {"workday", "cycles"}
ScheduleTypes == {"standard", "shortOnly", "longOnly"}
TimerTypes == {"pomodoro", "shortBreak", "longBreak"}
TargetCyclesChoices == {1, 2, 3}
LongEveryChoices == {2}
PomodoroDurationChoices == {2}
ShortBreakDurationChoices == {1}
LongBreakDurationChoices == {2}
WorkdayDurationChoices == {3}
Profiles == {"Default", "Study"}
Days == 0..MaxDay

\* the settings the user saved; targetCycles is not read in workday mode
Configs ==
  { c \in [ pomodoroDuration : PomodoroDurationChoices,
            shortBreakDuration : ShortBreakDurationChoices,
            longBreakDuration : LongBreakDurationChoices,
            workdayDuration : WorkdayDurationChoices,
            longEvery : LongEveryChoices, runMode : RunModes,
            targetCycles : TargetCyclesChoices,
            scheduleType : ScheduleTypes ] :
      c.runMode = "workday" => c.targetCycles = 1 }

\* useState defaults of the first render (App.tsx 700-721)
DefaultCfg ==
  [ pomodoroDuration |-> 25 * 60, shortBreakDuration |-> 5 * 60,
    longBreakDuration |-> 15 * 60, workdayDuration |-> 8 * 3600,
    longEvery |-> 4, runMode |-> "workday", targetCycles |-> 8,
    scheduleType |-> "standard" ]

Null == -1

Max(a, b) == IF a >= b THEN a ELSE b
Min(a, b) == IF a <= b THEN a ELSE b

VARIABLES
  \* App state (useState)
  isTimerRunning, currentTimerType, elapsedWorkdayTime,
  cumulativeActiveSec, cumulativeBreakSec, cumulativeShortBreakSec,
  cumulativeLongBreakSec, pomodorosCompleted, pendingAutoStart,
  hasEverStarted,
  \* App refs and timers
  lastTickRef,          \* Null or ms
  finishTimer,          \* the setTimeout(..., 100) of handleTimerEnd is pending
  midnightPoms,         \* pomodorosCompleted seen by the midnight timeout's closure
  autosaveAt,           \* the instant the autosave interval is next due, or Null
  \* Timer component
  remainingMsRef, targetTsRef, endedRef,
  fallbackAt,           \* Null or the instant the fallback timeout is due
  onTimerEnd,           \* values seen by the handleTimerEnd the poll loop calls
  \* localStorage
  runtime,              \* STORAGE.RUNTIME: <<>> or <<checkpoint>>
  diary,                \* STORAGE.DIARY: day key -> entry
  sessions,             \* STORAGE.SESSIONS
  currentProfile,       \* STORAGE.CURRENT_PROFILE
  \* environment
  cfg, now, day, restarts,
  storageFails,         \* localStorage.setItem and removeItem throw
  visible,              \* document.visibilityState = 'visible'
  events,               \* interventions so far (Pause, Reset, Diary, midnight, restart)
  \* history (not read by the program)
  last,                 \* what the last step did
  workPhases, breakPhases, \* phases started since the last Start
  announced,            \* chimes and speech of the last handler that made any
  workDone,             \* Work phases whose expiry was processed since Start
  fired,                \* onTimerEnd calls made by the Timer for this phase
  phaseRunMs,           \* time the engine has been running in this phase
  stretchStart,         \* Null or the instant accounting last (re)started
  stretchSec,           \* seconds accounted since stretchStart
  accountedActive, accountedBreak  \* seconds ever attributed to the buckets

appVars == <<isTimerRunning, currentTimerType, elapsedWorkdayTime,
             cumulativeActiveSec, cumulativeBreakSec, cumulativeShortBreakSec,
             cumulativeLongBreakSec, pomodorosCompleted, pendingAutoStart,
             hasEverStarted>>
refVars == <<lastTickRef, finishTimer, midnightPoms, autosaveAt>>
timerVars == <<remainingMsRef, targetTsRef, endedRef, fallbackAt, onTimerEnd>>
storeVars == <<runtime, diary, sessions, currentProfile>>
envVars == <<cfg, now, day, restarts, events, storageFails>>
histVars == <<last, workPhases, breakPhases, announced>>
ghostVars == <<workDone, fired, phaseRunMs, stretchStart, stretchSec,
               accountedActive, accountedBreak>>
vars == <<appVars, refVars, timerVars, storeVars, envVars, visible, histVars,
          ghostVars>>

\* ------------------------------------------------------------ pure helpers

\* getCurrentDuration
GetCurrentDuration(c, t) ==
  CASE t = "pomodoro" -> c.pomodoroDuration
    [] t = "shortBreak" -> c.shortBreakDuration
    [] t = "longBreak" -> c.longBreakDuration
    [] OTHER -> c.pomodoroDuration

\* the state a render exposes to the callbacks it creates
Closure(type, poms, elapsed, active, brk, short, long) ==
  [ currentTimerType |-> type, pomodorosCompleted |-> poms,
    elapsedWorkdayTime |-> elapsed, cumulativeActiveSec |-> active,
    cumulativeBreakSec |-> brk, cumulativeShortBreakSec |-> short,
    cumulativeLongBreakSec |-> long ]

\* closure of the first render
MountClosure == Closure("pomodoro", 0, 0, 0, 0, 0, 0)

\* closure of the current render
Current ==
  Closure(currentTimerType, pomodorosCompleted, elapsedWorkdayTime,
          cumulativeActiveSec, cumulativeBreakSec, cumulativeShortBreakSec,
          cumulativeLongBreakSec)

EmptyProfile == [ active |-> 0, brk |-> 0, poms |-> 0 ]

EmptyEntry ==
  [ active |-> 0, brk |-> 0, short |-> 0, long |-> 0, poms |-> 0,
    elapsed |-> 0, byProfile |-> [ p \in Profiles |-> EmptyProfile ],
    baseActive |-> 0, baseBreak |-> 0, baseShort |-> 0, baseLong |-> 0,
    basePoms |-> 0 ]

\* a missing day entry or profile entry reads as the all-zero default
\* (store[key] || {...}, nextByProfile[profileName] || {...}), so the stores
\* are total functions that hold the default where nothing was written
EmptyDiary == [ k \in Days |-> EmptyEntry ]

\* writeDiarySnapshot that merges the deltas but leaves the active baseline
\* where it was
WriteDiarySnapshotStaleBaseline(store, key, profileName, cl) ==
  LET prev == store[key]
      dActive == Max(0, cl.cumulativeActiveSec - prev.baseActive)
      dBreak == Max(0, cl.cumulativeBreakSec - prev.baseBreak)
      dShort == Max(0, cl.cumulativeShortBreakSec - prev.baseShort)
      dLong == Max(0, cl.cumulativeLongBreakSec - prev.baseLong)
      dPoms == Max(0, cl.pomodorosCompleted - prev.basePoms)
      pp == prev.byProfile[profileName]
      npp == [ active |-> pp.active + dActive, brk |-> pp.brk + dBreak,
               poms |-> pp.poms + dPoms ]
  IN [ store EXCEPT ![key] =
       [ active |-> prev.active + dActive,
         brk |-> prev.brk + dBreak,
         short |-> prev.short + dShort,
         long |-> prev.long + dLong,
         poms |-> prev.poms + dPoms,
         elapsed |-> Max(prev.elapsed, cl.elapsedWorkdayTime),
         byProfile |-> [ prev.byProfile EXCEPT ![profileName] = npp ],
         baseActive |-> prev.baseActive,
         baseBreak |-> cl.cumulativeBreakSec,
         baseShort |-> cl.cumulativeShortBreakSec,
         baseLong |-> cl.cumulativeLongBreakSec,
         basePoms |-> cl.pomodorosCompleted ] ]

\* writeDiarySnapshot that adds the deltas to the day totals only
WriteDiarySnapshotDayTotalsOnly(store, key, profileName, cl) ==
  LET prev == store[key]
      dActive == Max(0, cl.cumulativeActiveSec - prev.baseActive)
      dBreak == Max(0, cl.cumulativeBreakSec - prev.baseBreak)
      dShort == Max(0, cl.cumulativeShortBreakSec - prev.baseShort)
      dLong == Max(0, cl.cumulativeLongBreakSec - prev.baseLong)
      dPoms == Max(0, cl.pomodorosCompleted - prev.basePoms)
  IN [ store EXCEPT ![key] =
       [ active |-> prev.active + dActive,
         brk |-> prev.brk + dBreak,
         short |-> prev.short + dShort,
         long |-> prev.long + dLong,
         poms |-> prev.poms + dPoms,
         elapsed |-> Max(prev.elapsed, cl.elapsedWorkdayTime),
         byProfile |-> prev.byProfile,
         baseActive |-> cl.cumulativeActiveSec,
         baseBreak |-> cl.cumulativeBreakSec,
         baseShort |-> cl.cumulativeShortBreakSec,
         baseLong |-> cl.cumulativeLongBreakSec,
         basePoms |-> cl.pomodorosCompleted ] ]

\* writeDiarySnapshot: cl is the render the function belongs to
WriteDiarySnapshot(store, key, profileName, cl) ==
  LET prev == store[key]
      dActive == Max(0, cl.cumulativeActiveSec - prev.baseActive)
      dBreak == Max(0, cl.cumulativeBreakSec - prev.baseBreak)
      dShort == Max(0, cl.cumulativeShortBreakSec - prev.baseShort)
      dLong == Max(0, cl.cumulativeLongBreakSec - prev.baseLong)
      dPoms == Max(0, cl.pomodorosCompleted - prev.basePoms)
      pp == prev.byProfile[profileName]
      npp == [ active |-> pp.active + dActive, brk |-> pp.brk + dBreak,
               poms |-> pp.poms + dPoms ]
  IN [ store EXCEPT ![key] =
       [ active |-> prev.active + dActive,
         brk |-> prev.brk + dBreak,
         short |-> prev.short + dShort,
         long |-> prev.long + dLong,
         poms |-> prev.poms + dPoms,
         elapsed |-> Max(prev.elapsed, cl.elapsedWorkdayTime),
         byProfile |-> [ prev.byProfile EXCEPT ![profileName] = npp ],
         baseActive |-> cl.cumulativeActiveSec,
         baseBreak |-> cl.cumulativeBreakSec,
         baseShort |-> cl.cumulativeShortBreakSec,
         baseLong |-> cl.cumulativeLongBreakSec,
         basePoms |-> cl.pomodorosCompleted ] ]

\* the pomodoro-only update without the spread of the previous entry
UpdatePomodorosOnlyDropsEntry(store, key, profileName, cl) ==
  LET prev == store[key]
      dPoms == Max(0, cl.pomodorosCompleted - prev.basePoms)
      pp == prev.byProfile[profileName]
      npp == [ pp EXCEPT !.poms = pp.poms + dPoms ]
  IN [ store EXCEPT ![key] =
       [ EmptyEntry EXCEPT !.poms = prev.poms + dPoms,
                           !.byProfile = [ prev.byProfile EXCEPT ![profileName] = npp ],
                           !.basePoms = cl.pomodorosCompleted ] ]

\* updatePomodorosOnly
UpdatePomodorosOnly(store, key, profileName, cl) ==
  LET prev == store[key]
      dPoms == Max(0, cl.pomodorosCompleted - prev.basePoms)
      pp == prev.byProfile[profileName]
      npp == [ pp EXCEPT !.poms = pp.poms + dPoms ]
  IN [ store EXCEPT ![key] =
       [ prev EXCEPT !.poms = prev.poms + dPoms,
                     !.byProfile = [ prev.byProfile EXCEPT ![profileName] = npp ],
                     !.basePoms = cl.pomodorosCompleted ] ]

RECURSIVE LongCount(_, _)
\* the loop counting a long break one ordinal early
LongCountOffByOne(breaksCount, longEvery) ==
  Cardinality({ n \in 1..breaksCount :
                  longEvery > 0 /\ (n + 1) % longEvery = 0 })

\* the loop "for (let n = 1; n <= breaksCount; n++) ... longCount++"
LongCount(breaksCount, longEvery) ==
  IF breaksCount <= 0 THEN 0
  ELSE LongCount(breaksCount - 1, longEvery)
       + (IF longEvery > 0 /\ breaksCount % longEvery = 0 THEN 1 ELSE 0)

\* writeSessionRecord: the record it builds (id, startedAt, endedAt omitted)
SessionRecord(c, key, profile, cl, includeLastPomodoro) ==
  LET effectivePomodoros ==
        cl.pomodorosCompleted + (IF includeLastPomodoro THEN 1 ELSE 0)
      snap == c.runMode = "cycles" /\ effectivePomodoros > 0
      breaksCount == Max(0, effectivePomodoros - 1)
      longCount == CASE c.scheduleType = "shortOnly" -> 0
                     [] c.scheduleType = "longOnly" -> breaksCount
                     [] OTHER -> LongCount(breaksCount, c.longEvery)
      shortCount == breaksCount - longCount
      totalActive == IF snap THEN effectivePomodoros * c.pomodoroDuration
                     ELSE cl.cumulativeActiveSec
      totalBreak == IF snap THEN shortCount * c.shortBreakDuration
                                 + longCount * c.longBreakDuration
                    ELSE cl.cumulativeBreakSec
      shortSnap == Max(0, Min(totalBreak,
                     (totalBreak \div Max(1, c.shortBreakDuration))
                       * c.shortBreakDuration))
  IN [ dateKey |-> key, profile |-> profile,
       active |-> totalActive, break |-> totalBreak,
       short |-> IF c.runMode = "cycles" THEN shortSnap
                 ELSE cl.cumulativeShortBreakSec,
       long |-> IF c.runMode = "cycles" THEN totalBreak - shortSnap
                ELSE cl.cumulativeLongBreakSec,
       pomodoros |-> Max(0, effectivePomodoros),
       mode |-> c.runMode ]

\* writeSessionRecord that appends nothing
WriteSessionRecordNever(log, c, key, profile, cl, includeLastPomodoro) == log

\* writeSessionRecord without the early return on empty totals
WriteSessionRecordUnguarded(log, c, key, profile, cl, includeLastPomodoro) ==
  Append(log, SessionRecord(c, key, profile, cl, includeLastPomodoro))

\* writeSessionRecord: the session log after the call
WriteSessionRecord(log, c, key, profile, cl, includeLastPomodoro) ==
  IF cl.cumulativeActiveSec + cl.cumulativeBreakSec <= 0 THEN log
  ELSE Append(log, SessionRecord(c, key, profile, cl, includeLastPomodoro))

\* the break handleTimerEnd enters after nextCompleted Work intervals
NextBreak(c, nextCompleted) ==
  CASE c.scheduleType = "shortOnly" -> "shortBreak"
    [] c.scheduleType = "longOnly" -> "longBreak"
    [] OTHER -> IF nextCompleted % c.longEvery = 0 THEN "longBreak"
                ELSE "shortBreak"

\* handleTimerEnd: the stop condition
WorkdayDone(c, cl) ==
  c.runMode = "workday" /\ cl.elapsedWorkdayTime >= c.workdayDuration
CyclesDone(c, cl) ==
  /\ c.runMode = "cycles"
  /\ cl.currentTimerType = "pomodoro"
  /\ cl.pomodorosCompleted + 1 >= c.targetCycles

\* processDelta that forgets the break total in a long break
ProcessDeltaCountersNoLongBreak(t, deltaSec) ==
  [ elapsed |-> deltaSec,
    active |-> IF t = "pomodoro" THEN deltaSec ELSE 0,
    brk |-> IF t = "shortBreak" THEN deltaSec ELSE 0,
    short |-> IF t = "shortBreak" THEN deltaSec ELSE 0,
    long |-> IF t = "longBreak" THEN deltaSec ELSE 0 ]

\* processDelta: what deltaSec seconds of phase t add to the counters
ProcessDeltaCounters(t, deltaSec) ==
  [ elapsed |-> deltaSec,
    active |-> IF t = "pomodoro" THEN deltaSec ELSE 0,
    brk |-> IF t = "pomodoro" THEN 0 ELSE deltaSec,
    short |-> IF t = "shortBreak" THEN deltaSec ELSE 0,
    long |-> IF t = "longBreak" THEN deltaSec ELSE 0 ]

\* recovery effect: seconds since the checkpoint's startedAt
ElapsedSinceStart(rt, t) == Max(0, (t - rt.startedAt) \div 1000)

\* recovery effect: what the fast-forward adds to the counters
FastForwardCounters(rt, elapsedSinceStart) ==
  [ elapsed |-> elapsedSinceStart,
    active |-> IF rt.currentType = "pomodoro" THEN elapsedSinceStart ELSE 0,
    brk |-> IF rt.currentType = "pomodoro" THEN 0 ELSE elapsedSinceStart,
    short |-> IF rt.currentType = "shortBreak" THEN elapsedSinceStart ELSE 0,
    long |-> IF rt.currentType = "longBreak" THEN elapsedSinceStart ELSE 0 ]

\* the runtime checkpoint written by startWorkday, resumeTimer and the
\* auto-start effect
Checkpoint(type, startedAt, dur, poms) ==
  [ isRunning |-> TRUE, currentType |-> type, startedAt |-> startedAt,
    plannedEndAt |-> startedAt + dur * 1000, pomodorosCompleted |-> poms ]

\* the tick effect that leaves lastTickRef alone once it is set
TickEffectKeepsLastTick(running, t) ==
  IF running /\ lastTickRef = Null THEN t ELSE lastTickRef

\* the tick effect, run when isTimerRunning or the phase changes: the value
\* it gives lastTickRef at instant t
TickEffect(running, t) == IF running THEN t ELSE Null

\* processDelta that moves lastTickRef to the instant t of the call
AdvanceLastTickToNow(lastTick, deltaSec, t) == t

\* processDelta: lastTickRef.current += deltaSec * 1000
AdvanceLastTick(lastTick, deltaSec, t) == lastTick + deltaSec * 1000

\* the midnight timeout is re-armed (with the closure of the current render)
\* whenever one of its dependencies changes
MidnightClosure ==
  midnightPoms' =
    IF <<cumulativeActiveSec', cumulativeBreakSec', elapsedWorkdayTime'>>
       # <<cumulativeActiveSec, cumulativeBreakSec, elapsedWorkdayTime>>
    THEN pomodorosCompleted' ELSE midnightPoms

\* the period of the autosave interval, 5 * 60 * 1000 ms in the program, on
\* the scale of the durations of Configs
AutosaveIntervalMs == 1500

\* the autosave effect is run again, and its interval started afresh,
\* whenever one of its dependencies changes: the cumulative counters,
\* elapsedWorkdayTime and cumulativePomodoros, which changes whenever
\* pomodorosCompleted does.  With autosaveAt = Null the interval is not
\* timed: DiarySnapshot, which may come at any moment, stands for it
AutosaveClosure ==
  autosaveAt' =
    IF autosaveAt = Null THEN Null
    ELSE IF <<cumulativeActiveSec', cumulativeBreakSec', cumulativeShortBreakSec',
         cumulativeLongBreakSec', elapsedWorkdayTime', pomodorosCompleted'>>
       # <<cumulativeActiveSec, cumulativeBreakSec, cumulativeShortBreakSec,
           cumulativeLongBreakSec, elapsedWorkdayTime, pomodorosCompleted>>
    THEN now + AutosaveIntervalMs ELSE autosaveAt

\* localStorage.setItem or removeItem inside try { } catch {}: the stored
\* value after the call, old when the call throws and new otherwise
SetItem(old, new) == IF storageFails THEN old ELSE new

\* a write whose exception reaches the handler that asked for it
WriteThrowsUncaught(fails) == fails

\* writeDiarySnapshot and writeSessionRecord keep their whole body in
\* try { } catch {}: whether an exception leaves them when the write fails
WriteThrows(fails) == FALSE

\* what startWorkday plays and says: announcePhase('pomodoro')
StartWorkdaySounds == << "pomodoro" >>

\* handleTimerEnd that also announces a phase when the run is over
HandleTimerEndSoundsAnnouncesAtEnd(finish, nextType) ==
  IF finish THEN << "chime", "finalChime", "end", nextType >>
  ELSE << "chime", nextType >>

\* what handleTimerEnd plays and says: the chime, then either the final
\* chime and announceEnd, or announcePhase of the type it moves to
HandleTimerEndSounds(finish, nextType) ==
  IF finish THEN << "chime", "finalChime", "end" >>
  ELSE << "chime", nextType >>

\* ------------------------------------------------------------------- Init
Init ==
  /\ cfg \in Configs
  /\ isTimerRunning = FALSE
  /\ currentTimerType = "pomodoro"
  /\ elapsedWorkdayTime = 0
  /\ cumulativeActiveSec = 0
  /\ cumulativeBreakSec = 0
  /\ cumulativeShortBreakSec = 0
  /\ cumulativeLongBreakSec = 0
  /\ pomodorosCompleted = 0
  /\ pendingAutoStart = FALSE
  /\ hasEverStarted = FALSE
  /\ lastTickRef = Null
  /\ finishTimer = FALSE
  /\ midnightPoms = 0
  /\ autosaveAt = Null
  /\ remainingMsRef = cfg.pomodoroDuration * 1000
  /\ targetTsRef = Null
  /\ endedRef = FALSE
  /\ fallbackAt = Null
  /\ onTimerEnd = MountClosure
  /\ runtime = << >>
  /\ diary = EmptyDiary
  /\ sessions = << >>
  /\ currentProfile = "Default"
  /\ now = 0
  /\ day = 0
  /\ restarts = 0
  /\ storageFails = FALSE
  /\ events = 0
  /\ last = "init"
  /\ workPhases = 0
  /\ breakPhases = 0
  /\ announced = << >>
  /\ visible = TRUE
  /\ workDone = 0
  /\ fired = 0
  /\ phaseRunMs = 0
  /\ stretchStart = Null
  /\ stretchSec = 0
  /\ accountedActive = 0
  /\ accountedBreak = 0

\* ---------------------------------------------------------------- actions

\* history: accounting (re)starts at this instant, or stops
StretchBegins == stretchStart' = now /\ stretchSec' = 0
StretchEnds == stretchStart' = Null /\ stretchSec' = 0
\* history: a phase starts, or the run is over
PhaseBegins == fired' = 0 /\ phaseRunMs' = 0 /\ StretchBegins
RunEnds == fired' = 0 /\ phaseRunMs' = 0 /\ workDone' = 0 /\ StretchEnds

\* while the page is shown the animation-frame loop polls the Timer at least
\* once per quantum, and a fallback timeout that is due runs, so a deadline
\* they can see is seen before the clock moves on; a hidden page gets no
\* animation frames
Polled ==
  \/ ~isTimerRunning
  \/ /\ visible =>
          /\ targetTsRef # Null
          /\ remainingMsRef = Max(0, targetTsRef - now)
          /\ remainingMsRef > 0 \/ endedRef
     /\ fallbackAt = Null \/ now < fallbackAt

\* the wall clock advances; the 100 ms timeout of handleTimerEnd and the
\* pending effects run before a quantum has passed.  With nothing started and
\* no checkpoint stored, no timestamp is held anywhere, so the passing of
\* time is not represented
Advance ==
  /\ ~pendingAutoStart /\ ~finishTimer
  /\ isTimerRunning \/ hasEverStarted \/ runtime # << >>
  /\ Polled
  /\ autosaveAt = Null \/ now < autosaveAt
  /\ now < MaxSteps * Quantum
  /\ now' = now + Quantum
  /\ phaseRunMs' = phaseRunMs + (IF isTimerRunning THEN Quantum ELSE 0)
  /\ UNCHANGED <<appVars, refVars, timerVars, storeVars, cfg, day, restarts,
                 storageFails,
                 events, visible, histVars, workDone, fired, stretchStart,
                 stretchSec, accountedActive, accountedBreak>>

\* the zeroing that forgets the short and long break counters
ZeroAccumulatorsKeepsBreakSplit ==
  /\ elapsedWorkdayTime' = 0
  /\ cumulativeActiveSec' = 0
  /\ cumulativeBreakSec' = 0
  /\ pomodorosCompleted' = 0
  /\ UNCHANGED <<cumulativeShortBreakSec, cumulativeLongBreakSec>>

\* the zeroing setters of startWorkday, the deferred reset of handleTimerEnd
\* and handleReset
ZeroAccumulators ==
  /\ elapsedWorkdayTime' = 0
  /\ cumulativeActiveSec' = 0
  /\ cumulativeBreakSec' = 0
  /\ cumulativeShortBreakSec' = 0
  /\ cumulativeLongBreakSec' = 0
  /\ pomodorosCompleted' = 0

\* Start button -> startWorkday
StartWorkday ==
  /\ ~pendingAutoStart /\ visible
  /\ ~isTimerRunning /\ ~hasEverStarted
  /\ isTimerRunning' = TRUE
  /\ hasEverStarted' = TRUE
  /\ currentTimerType' = "pomodoro"
  /\ ZeroAccumulators
  /\ runtime' = SetItem(runtime,
                  << Checkpoint("pomodoro", now, cfg.pomodoroDuration,
                                pomodorosCompleted) >>)
  \* next render: Timer reset effect (sessionId), run effect, tick effect
  /\ remainingMsRef' = cfg.pomodoroDuration * 1000
  /\ endedRef' = FALSE
  /\ targetTsRef' = Null
  /\ fallbackAt' = now + cfg.pomodoroDuration * 1000 + 5
  /\ onTimerEnd' = Closure("pomodoro", 0, 0, 0, 0, 0, 0)
  /\ lastTickRef' = TickEffect(TRUE, now)
  /\ MidnightClosure
  /\ AutosaveClosure
  /\ last' = "start"
  /\ announced' = StartWorkdaySounds
  /\ workPhases' = 1
  /\ breakPhases' = 0
  /\ PhaseBegins
  /\ workDone' = 0
  /\ UNCHANGED <<pendingAutoStart, finishTimer, diary, sessions,
                 currentProfile, envVars, visible, accountedActive,
                 accountedBreak>>

\* handleTimerEnd as called with configuration c and closure cl, followed by
\* the effects of the render it causes; prevType is the phase the Timer was
\* showing, rem and ended are the Timer's refs when it made the call, pending
\* tells whether an earlier 100 ms timeout is still to fire
HandleTimerEnd(c, cl, prevType, rem, ended, pending) ==
  /\ isTimerRunning' = FALSE
  /\ lastTickRef' = TickEffect(FALSE, now)
  /\ targetTsRef' = Null          \* stopLoop
  /\ fallbackAt' = Null
  /\ IF WorkdayDone(c, cl) \/ CyclesDone(c, cl)
     THEN /\ diary' = SetItem(diary,
                 WriteDiarySnapshot(diary, day, currentProfile, cl))
          /\ sessions' = SetItem(sessions,
                 WriteSessionRecord(sessions, c, day, currentProfile,
                                    cl, cl.currentTimerType = "pomodoro"))
          /\ finishTimer' = TRUE
          /\ remainingMsRef' = rem
          /\ endedRef' = ended
          /\ last' = "finish"
          /\ announced' = HandleTimerEndSounds(TRUE, currentTimerType)
          /\ UNCHANGED <<currentTimerType, pomodorosCompleted,
                         pendingAutoStart, runtime>>
     ELSE /\ IF cl.currentTimerType = "pomodoro"
             THEN /\ pomodorosCompleted' = cl.pomodorosCompleted + 1
                  /\ diary' = SetItem(diary,
                         UpdatePomodorosOnly(diary, day, currentProfile, cl))
                  /\ currentTimerType' = NextBreak(c, cl.pomodorosCompleted + 1)
             ELSE /\ currentTimerType' = "pomodoro"
                  /\ UNCHANGED <<pomodorosCompleted, diary>>
          /\ pendingAutoStart' = TRUE
          /\ runtime' = SetItem(runtime, << >>)
          \* Timer reset effect when the duration prop changes
          /\ IF GetCurrentDuration(cfg, currentTimerType')
                  # GetCurrentDuration(cfg, prevType)
             THEN /\ remainingMsRef' =
                       GetCurrentDuration(cfg, currentTimerType') * 1000
                  /\ endedRef' = FALSE
             ELSE /\ remainingMsRef' = rem
                  /\ endedRef' = ended
          /\ finishTimer' = pending
          /\ last' = "transition"
          /\ announced' = HandleTimerEndSounds(FALSE, currentTimerType')
          /\ UNCHANGED sessions

\* the expiry test without the "already fired" guard
ExpiredUnguarded(msLeft, ended) == msLeft <= 0

\* the expiry test of tick, the fallback timeout and handleVisibility
Expired(msLeft, ended) == msLeft <= 0 /\ ~ended

\* one poll of the Timer: the body that tick, the fallback timeout and
\* handleVisibility share; spent tells that the fallback timeout is the
\* caller and so will not run again.  handleVisibility stays registered,
\* with isRunning true in its closure, until the render that follows the
\* expiry is committed: late tells that a focus or visibilitychange event is
\* handled in between, when stopLoop has cleared the deadline and
\* remainingMsRef is msLeft
Poll(spent) ==
  LET target == IF targetTsRef = Null THEN now + remainingMsRef
                ELSE targetTsRef
      msLeft == Max(0, target - now)
  IN IF Expired(msLeft, endedRef)
     THEN /\ HandleTimerEnd(cfg, onTimerEnd, currentTimerType, msLeft, TRUE,
                            finishTimer)
          /\ \E late \in BOOLEAN :
               fired' = fired + 1
                          + (IF late /\ visible /\ Expired(msLeft, TRUE)
                             THEN 1 ELSE 0)
          /\ workDone' = workDone
                          + (IF currentTimerType = "pomodoro" THEN 1 ELSE 0)
          /\ StretchEnds
          /\ UNCHANGED <<elapsedWorkdayTime, cumulativeActiveSec,
                         cumulativeBreakSec, cumulativeShortBreakSec,
                         cumulativeLongBreakSec, hasEverStarted,
                         onTimerEnd, currentProfile, envVars, visible,
                         workPhases, breakPhases, phaseRunMs,
                         accountedActive, accountedBreak>>
          /\ MidnightClosure
          /\ AutosaveClosure
     ELSE /\ targetTsRef' = target
          /\ remainingMsRef' = msLeft
          /\ fallbackAt' = IF spent THEN Null ELSE fallbackAt
          /\ UNCHANGED <<appVars, refVars, endedRef, onTimerEnd, storeVars,
                         envVars, visible, histVars, ghostVars>>

\* an animation frame: tick, which requests the next frame
TimerTick ==
  /\ ~pendingAutoStart
  /\ isTimerRunning /\ visible
  /\ Poll(FALSE)

\* the fallback timeout armed by the run effect
FallbackTimeout ==
  /\ ~pendingAutoStart
  /\ isTimerRunning
  /\ fallbackAt # Null /\ now >= fallbackAt
  /\ Poll(TRUE)

\* visibilitychange or focus with the page shown: handleVisibility
HandleVisibility ==
  /\ ~pendingAutoStart
  /\ isTimerRunning /\ visible
  /\ Poll(FALSE)

\* the page is hidden (tab in the background, screen locked); the buttons
\* cannot be pressed until it is shown again
Hide ==
  /\ ~pendingAutoStart
  /\ visible
  /\ events < MaxEvents
  /\ events' = events + 1
  /\ visible' = FALSE
  /\ UNCHANGED <<appVars, refVars, timerVars, storeVars, cfg, now, day,
                 storageFails,
                 restarts, histVars, ghostVars>>

\* the page is shown again
Show ==
  /\ ~pendingAutoStart
  /\ ~visible
  /\ visible' = TRUE
  /\ UNCHANGED <<appVars, refVars, timerVars, storeVars, envVars, histVars,
                 ghostVars>>

\* the auto-start effect (pendingAutoStart) and the render it causes
AutoStartEffect ==
  /\ pendingAutoStart
  /\ isTimerRunning' = TRUE
  /\ pendingAutoStart' = FALSE
  /\ runtime' = SetItem(runtime,
                  << Checkpoint(currentTimerType, now,
                                GetCurrentDuration(cfg, currentTimerType),
                                pomodorosCompleted) >>)
  \* next render: Timer reset effect (sessionId), run effect, tick effect
  /\ remainingMsRef' = GetCurrentDuration(cfg, currentTimerType) * 1000
  /\ endedRef' = FALSE
  /\ targetTsRef' = Null
  /\ fallbackAt' = now + GetCurrentDuration(cfg, currentTimerType) * 1000 + 5
  /\ onTimerEnd' = Current
  /\ lastTickRef' = TickEffect(TRUE, now)
  /\ PhaseBegins
  /\ UNCHANGED <<visible, workDone, accountedActive, accountedBreak,
                 announced>>
  /\ last' = "autostart"
  /\ workPhases' = workPhases + (IF currentTimerType = "pomodoro" THEN 1 ELSE 0)
  /\ breakPhases' = breakPhases + (IF currentTimerType = "pomodoro" THEN 0 ELSE 1)
  /\ UNCHANGED <<currentTimerType, elapsedWorkdayTime, cumulativeActiveSec,
                 cumulativeBreakSec, cumulativeShortBreakSec,
                 cumulativeLongBreakSec, pomodorosCompleted, hasEverStarted,
                 finishTimer, midnightPoms, autosaveAt, diary, sessions, currentProfile,
                 envVars>>

\* the setTimeout(..., 100) callback of handleTimerEnd
DeferredReset ==
  /\ finishTimer
  /\ ~pendingAutoStart
  /\ finishTimer' = FALSE
  /\ isTimerRunning' = FALSE
  /\ currentTimerType' = "pomodoro"
  /\ ZeroAccumulators
  /\ hasEverStarted' = FALSE
  \* next render: Timer reset effect (sessionId), stopLoop, tick effect
  /\ remainingMsRef' = cfg.pomodoroDuration * 1000
  /\ endedRef' = FALSE
  /\ targetTsRef' = Null
  /\ lastTickRef' = TickEffect(FALSE, now)
  /\ fallbackAt' = Null
  /\ MidnightClosure
  /\ AutosaveClosure
  /\ last' = "idle"
  /\ RunEnds
  /\ UNCHANGED <<pendingAutoStart, onTimerEnd, storeVars, envVars, visible,
                 workPhases, breakPhases, announced, accountedActive,
                 accountedBreak>>

\* processDelta whose delta is neither clamped at zero nor guarded
DeltaSecSigned(lastTick, t) == (t - lastTick) \div 1000

\* processDelta: the whole seconds between lastTickRef and the clock reading
\* t, and 0 where the guard deltaSec <= 0 returns
DeltaSec(lastTick, t) ==
  LET deltaMs == Max(0, t - lastTick)
      deltaSec == deltaMs \div 1000
  IN IF deltaSec <= 0 THEN 0 ELSE deltaSec

\* processDelta when Date.now() reads t
ProcessDeltaAt(t) ==
  /\ ~pendingAutoStart
  /\ IF ~isTimerRunning
     THEN UNCHANGED vars
     ELSE IF lastTickRef = Null
     THEN /\ lastTickRef' = t
          /\ StretchBegins
          /\ UNCHANGED <<appVars, finishTimer, midnightPoms, autosaveAt,
                         timerVars, storeVars, envVars, visible, histVars, workDone,
                         fired, phaseRunMs, accountedActive, accountedBreak>>
     ELSE LET deltaSec == DeltaSec(lastTickRef, t)
              d == ProcessDeltaCounters(currentTimerType, deltaSec)
              next == elapsedWorkdayTime + d.elapsed
              stop == cfg.runMode = "workday" /\ next >= cfg.workdayDuration
          IN IF deltaSec = 0
             THEN \* the early return; history: the clock read was behind
                  \* lastTickRef
                  IF t < lastTickRef
                  THEN /\ last' = "clockAnomaly"
                       /\ UNCHANGED <<appVars, refVars, timerVars, storeVars,
                                      envVars, visible, workPhases,
                                      breakPhases, announced, ghostVars>>
                  ELSE UNCHANGED vars
             ELSE /\ elapsedWorkdayTime' = next
                  /\ isTimerRunning' = ~stop
                  \* tick effect and Timer run effect when isTimerRunning
                  \* turns false
                  /\ lastTickRef' =
                       IF stop THEN TickEffect(FALSE, t)
                       ELSE AdvanceLastTick(lastTickRef, deltaSec, t)
                  /\ targetTsRef' = IF stop THEN Null ELSE targetTsRef
                  /\ fallbackAt' = IF stop THEN Null ELSE fallbackAt
                  /\ stretchStart' = IF stop THEN Null ELSE stretchStart
                  /\ stretchSec' = IF stop THEN 0 ELSE stretchSec + deltaSec
                  /\ accountedActive' = accountedActive + d.active
                  /\ accountedBreak' = accountedBreak + d.brk
                  /\ cumulativeActiveSec' = cumulativeActiveSec + d.active
                  /\ cumulativeBreakSec' = cumulativeBreakSec + d.brk
                  /\ cumulativeShortBreakSec' = cumulativeShortBreakSec + d.short
                  /\ cumulativeLongBreakSec' = cumulativeLongBreakSec + d.long
                  /\ last' = IF stop THEN "workdayAlert" ELSE last
                  /\ UNCHANGED <<currentTimerType, pomodorosCompleted,
                                 pendingAutoStart, hasEverStarted, finishTimer,
                                 remainingMsRef, endedRef, onTimerEnd,
                                 storeVars, envVars, visible, workPhases,
                                 breakPhases, announced, workDone, fired,
                                 phaseRunMs>>
                  /\ MidnightClosure
                  /\ AutosaveClosure

\* processDelta, from the 1 s interval or a visibility/focus/pageshow event
ProcessDelta == ProcessDeltaAt(now)

\* stopLoop that clears the fallback timeout but keeps the deadline
StopLoopKeepsDeadline == targetTsRef' = targetTsRef /\ fallbackAt' = Null

\* stopLoop, from the Timer run effect when isRunning turns false
StopLoop == targetTsRef' = Null /\ fallbackAt' = Null

\* Pause button
Pause ==
  /\ ~pendingAutoStart /\ visible
  /\ isTimerRunning
  /\ events < MaxEvents
  /\ events' = events + 1
  /\ isTimerRunning' = FALSE
  /\ lastTickRef' = TickEffect(FALSE, now)
  /\ StopLoop
  /\ StretchEnds
  /\ UNCHANGED <<currentTimerType, elapsedWorkdayTime, cumulativeActiveSec,
                 cumulativeBreakSec, cumulativeShortBreakSec,
                 cumulativeLongBreakSec, pomodorosCompleted, pendingAutoStart,
                 hasEverStarted, finishTimer, midnightPoms, autosaveAt, remainingMsRef,
                 endedRef, onTimerEnd, storeVars, cfg, now, day, restarts,
                 storageFails,
                 visible, histVars, workDone, fired, phaseRunMs,
                 accountedActive, accountedBreak>>

\* Resume button -> resumeTimer
ResumeTimer ==
  /\ ~pendingAutoStart /\ visible
  /\ ~isTimerRunning /\ hasEverStarted
  /\ isTimerRunning' = TRUE
  /\ runtime' = SetItem(runtime,
                  << Checkpoint(currentTimerType, now,
                                GetCurrentDuration(cfg, currentTimerType),
                                pomodorosCompleted) >>)
  \* next render: Timer run effect, tick effect
  /\ fallbackAt' = now + remainingMsRef + 5
  /\ onTimerEnd' = Current
  /\ lastTickRef' = TickEffect(TRUE, now)
  /\ StretchBegins
  /\ UNCHANGED <<currentTimerType, elapsedWorkdayTime, cumulativeActiveSec,
                 cumulativeBreakSec, cumulativeShortBreakSec,
                 cumulativeLongBreakSec, pomodorosCompleted, pendingAutoStart,
                 hasEverStarted, finishTimer, midnightPoms, autosaveAt, remainingMsRef,
                 targetTsRef, endedRef, diary, sessions, currentProfile,
                 envVars, visible, histVars, workDone, fired, phaseRunMs,
                 accountedActive, accountedBreak>>

\* Reset button -> handleReset
HandleReset ==
  /\ ~pendingAutoStart /\ visible
  /\ events < MaxEvents
  /\ events' = events + 1
  /\ last' = "reset"
  /\ IF WriteThrows(storageFails)
     THEN \* the handler is left at its first statement
          UNCHANGED <<appVars, refVars, timerVars, storeVars, cfg, now, day,
                      restarts, storageFails, visible, workPhases,
                      breakPhases, announced, ghostVars>>
     ELSE /\ diary' = SetItem(diary,
                        WriteDiarySnapshot(diary, day, currentProfile, Current))
          /\ sessions' = SetItem(sessions,
                           WriteSessionRecord(sessions, cfg, day, currentProfile,
                                              Current, FALSE))
          /\ isTimerRunning' = FALSE
          /\ currentTimerType' = "pomodoro"
          /\ ZeroAccumulators
          /\ hasEverStarted' = FALSE
          /\ runtime' = SetItem(runtime, << >>)
          \* next render: Timer reset effect (sessionId), stopLoop, tick effect
          /\ remainingMsRef' = cfg.pomodoroDuration * 1000
          /\ endedRef' = FALSE
          /\ targetTsRef' = Null
          /\ lastTickRef' = TickEffect(FALSE, now)
          /\ fallbackAt' = Null
          /\ MidnightClosure
          /\ AutosaveClosure
          /\ workPhases' = 0
          /\ breakPhases' = 0
          /\ RunEnds
          /\ UNCHANGED <<pendingAutoStart, finishTimer, onTimerEnd, currentProfile,
                         cfg, now, day, restarts, storageFails, visible, announced,
                         accountedActive, accountedBreak>>

\* the autosave interval fires
Autosave ==
  /\ ~pendingAutoStart
  /\ autosaveAt # Null /\ now >= autosaveAt
  /\ autosaveAt' = autosaveAt + AutosaveIntervalMs
  /\ diary' = SetItem(diary,
                WriteDiarySnapshot(diary, day, currentProfile, Current))
  /\ UNCHANGED <<appVars, lastTickRef, finishTimer, midnightPoms, timerVars,
                 runtime, sessions, currentProfile, envVars, visible,
                 histVars, ghostVars>>

\* Diary / Close Diary buttons, and the autosave where its interval is not
\* timed: writeDiarySnapshot
DiarySnapshot ==
  /\ ~pendingAutoStart
  /\ events < MaxEvents
  /\ events' = events + 1
  /\ diary' = SetItem(diary,
                WriteDiarySnapshot(diary, day, currentProfile, Current))
  /\ UNCHANGED <<appVars, refVars, timerVars, runtime, sessions,
                 currentProfile, cfg, now, day, restarts, storageFails,
                 visible, histVars,
                 ghostVars>>

\* local midnight: the rollover timeout fires on the new day
MidnightRollover ==
  /\ ~pendingAutoStart
  /\ day < MaxDay
  /\ events < MaxEvents
  /\ events' = events + 1
  /\ day' = day + 1
  /\ diary' = SetItem(diary,
                WriteDiarySnapshot(diary, day', currentProfile,
                  [ Current EXCEPT !.pomodorosCompleted = midnightPoms ]))
  /\ cumulativeActiveSec' = 0
  /\ cumulativeBreakSec' = 0
  /\ elapsedWorkdayTime' = 0
  /\ last' = "midnight"
  /\ UNCHANGED <<isTimerRunning, currentTimerType, cumulativeShortBreakSec,
                 cumulativeLongBreakSec, pomodorosCompleted, pendingAutoStart,
                 hasEverStarted, lastTickRef, finishTimer, timerVars, runtime,
                 sessions, currentProfile, cfg, now, restarts, storageFails,
                 visible,
                 workPhases, breakPhases, announced, ghostVars>>
  /\ MidnightClosure
  /\ AutosaveClosure

\* the process is stopped and started again: first render, the mount effects
\* (settings and cumulative counters are reloaded, recovery effect) and the
\* recovery effect's setTimeout(..., 0)
Restart ==
  /\ ~pendingAutoStart
  /\ restarts < MaxRestarts
  /\ events < MaxEvents
  /\ events' = events + 1
  /\ restarts' = restarts + 1
  /\ hasEverStarted' = FALSE
  /\ visible' = TRUE
  /\ fired' = 0
  /\ IF runtime = << >> \/ ~runtime[1].isRunning
     THEN /\ isTimerRunning' = FALSE
          /\ finishTimer' = FALSE
          /\ currentTimerType' = "pomodoro"
          /\ pomodorosCompleted' = 0
          /\ pendingAutoStart' = FALSE
          /\ lastTickRef' = Null
          /\ remainingMsRef' = cfg.pomodoroDuration * 1000
          /\ endedRef' = FALSE
          /\ targetTsRef' = Null
          /\ fallbackAt' = Null
          /\ onTimerEnd' = MountClosure
          /\ last' = "mount"
          /\ UNCHANGED announced
          /\ workPhases' = 0
          /\ breakPhases' = 0
          /\ phaseRunMs' = 0
          /\ workDone' = 0
          /\ StretchEnds
          /\ UNCHANGED <<accountedActive, accountedBreak>>
          /\ UNCHANGED <<elapsedWorkdayTime, cumulativeActiveSec,
                         cumulativeBreakSec, cumulativeShortBreakSec,
                         cumulativeLongBreakSec, diary, runtime>>
     ELSE LET rt == runtime[1]
              d == FastForwardCounters(rt, ElapsedSinceStart(rt, now))
          IN /\ elapsedWorkdayTime' = elapsedWorkdayTime + d.elapsed
             /\ UNCHANGED <<workPhases, breakPhases, phaseRunMs>>
             /\ accountedActive' = accountedActive + d.active
             /\ accountedBreak' = accountedBreak + d.brk
             /\ cumulativeActiveSec' = cumulativeActiveSec + d.active
             /\ cumulativeBreakSec' = cumulativeBreakSec + d.brk
             /\ cumulativeShortBreakSec' = cumulativeShortBreakSec + d.short
             /\ cumulativeLongBreakSec' = cumulativeLongBreakSec + d.long
             /\ IF now >= rt.plannedEndAt
                THEN \* handleTimerEnd of the first render
                     /\ HandleTimerEnd(DefaultCfg, MountClosure, rt.currentType,
                          GetCurrentDuration(cfg, rt.currentType) * 1000, FALSE,
                          FALSE)
                     /\ workDone' = workDone
                          + (IF rt.currentType = "pomodoro" THEN 1 ELSE 0)
                     /\ StretchEnds
                     /\ onTimerEnd' =
                          Closure(rt.currentType, 0, elapsedWorkdayTime',
                                  cumulativeActiveSec', cumulativeBreakSec',
                                  cumulativeShortBreakSec',
                                  cumulativeLongBreakSec')
                ELSE /\ currentTimerType' = rt.currentType
                     /\ isTimerRunning' = TRUE
                     /\ finishTimer' = FALSE
                     /\ pomodorosCompleted' = 0
                     /\ pendingAutoStart' = FALSE
                     /\ lastTickRef' = now
                     /\ remainingMsRef' =
                          GetCurrentDuration(cfg, rt.currentType) * 1000
                     /\ endedRef' = FALSE
                     /\ targetTsRef' = Null
                     /\ fallbackAt' =
                          now + GetCurrentDuration(cfg, rt.currentType) * 1000 + 5
                     /\ StretchBegins
                     /\ UNCHANGED workDone
                     /\ onTimerEnd' =
                          Closure(rt.currentType, 0, elapsedWorkdayTime',
                                  cumulativeActiveSec', cumulativeBreakSec',
                                  cumulativeShortBreakSec',
                                  cumulativeLongBreakSec')
                     /\ last' = "recover"
                     /\ UNCHANGED announced
                     /\ UNCHANGED <<diary, runtime>>
  /\ UNCHANGED <<sessions, currentProfile, cfg, now, day, storageFails>>
  /\ MidnightClosure
  /\ autosaveAt' = IF autosaveAt = Null THEN Null
                   ELSE now + AutosaveIntervalMs

Next ==
  \/ Advance
  \/ StartWorkday
  \/ TimerTick
  \/ FallbackTimeout
  \/ HandleVisibility
  \/ Hide
  \/ Show
  \/ AutoStartEffect
  \/ DeferredReset
  \/ ProcessDelta
  \/ Pause
  \/ ResumeTimer
  \/ HandleReset
  \/ DiarySnapshot
  \/ MidnightRollover
  \/ Restart

Spec == Init /\ [][Next]_vars

\* what Date.now() may return to processDelta when the system clock is set
\* back or forth under the running program
ClockReadings == { k * Quantum : k \in 0..MaxSteps }

\* processDelta under a wall clock that is not the Timer's monotonic clock
ProcessDeltaAnyClock == \E t \in ClockReadings : ProcessDeltaAt(t)

\* a run left to itself while the system clock is being changed
NextClock ==
  \/ Advance
  \/ StartWorkday
  \/ TimerTick
  \/ AutoStartEffect
  \/ DeferredReset
  \/ ProcessDeltaAnyClock

SpecClock == Init /\ [][NextClock]_vars

\* localStorage starts or stops throwing on writes (quota exceeded, storage
\* disabled)
StorageBreaks ==
  /\ ~pendingAutoStart
  /\ storageFails' = ~storageFails
  /\ UNCHANGED <<appVars, refVars, timerVars, storeVars, cfg, now, day,
                 restarts, events, visible, histVars, ghostVars>>

\* a run, with its buttons, on a page that stays shown while the storage
\* fails at times
NextStorage ==
  \/ Advance
  \/ StartWorkday
  \/ TimerTick
  \/ AutoStartEffect
  \/ DeferredReset
  \/ ProcessDelta
  \/ ResumeTimer
  \/ HandleReset
  \/ DiarySnapshot
  \/ StorageBreaks

SpecStorage == Init /\ [][NextStorage]_vars

\* the autosave effect of the first render starts its interval
AutosaveMounts ==
  /\ autosaveAt = Null
  /\ ~hasEverStarted /\ now = 0
  /\ autosaveAt' = now + AutosaveIntervalMs
  /\ UNCHANGED <<appVars, lastTickRef, finishTimer, midnightPoms, timerVars,
                 storeVars, envVars, visible, histVars, ghostVars>>

\* a run left to itself on a page that stays shown, with the autosave
\* interval timed
NextAutosave ==
  \/ AutosaveMounts
  \/ Advance
  \/ StartWorkday
  \/ TimerTick
  \/ AutoStartEffect
  \/ DeferredReset
  \/ ProcessDelta
  \/ Autosave

SpecAutosave == Init /\ [][NextAutosave]_vars

\* a profile is applied or saved in the settings -> switchCurrentProfile:
\* the snapshot goes to the profile that was current, then the name changes
SwitchCurrentProfile ==
  /\ ~pendingAutoStart /\ visible
  /\ \E name \in Profiles :
       currentProfile' = SetItem(currentProfile, name)
  /\ diary' = SetItem(diary,
                WriteDiarySnapshot(diary, day, currentProfile, Current))
  /\ UNCHANGED <<appVars, refVars, timerVars, runtime, sessions, envVars,
                 visible, histVars, ghostVars>>

\* a run on a page that stays shown, while the user changes the activity
\* label and opens the diary
NextProfiles ==
  \/ Advance
  \/ StartWorkday
  \/ TimerTick
  \/ AutoStartEffect
  \/ DeferredReset
  \/ ProcessDelta
  \/ DiarySnapshot
  \/ SwitchCurrentProfile

SpecProfiles == Init /\ [][NextProfiles]_vars

TypeOK ==
  /\ isTimerRunning \in BOOLEAN
  /\ currentTimerType \in TimerTypes
  /\ elapsedWorkdayTime \in Nat
  /\ pomodorosCompleted \in Nat
  /\ lastTickRef \in Nat \cup {Null}
  /\ targetTsRef \in Nat \cup {Null}
  /\ remainingMsRef \in Nat
  /\ Len(runtime) <= 1
  /\ fallbackAt \in Nat \cup {Null}
  /\ visible \in BOOLEAN
  /\ stretchStart \in Nat \cup {Null}
  /\ fired \in Nat /\ workDone \in Nat /\ phaseRunMs \in Nat

\* ----------------------------------------------------------------- claims

\* a step in which handleTimerEnd ran and decided to finish the run
Finishes == finishTimer' /\ ~finishTimer
\* a step in which handleTimerEnd ran and decided to go on with a next phase
Continues == pendingAutoStart' /\ ~pendingAutoStart
\* a step in which a phase expiry was processed
Expires == Finishes \/ Continues

BreakTypes == {"shortBreak", "longBreak"}

\* the break-type rule of the scheduler for the n-th completed Work interval
BreakRule(n) ==
  CASE cfg.scheduleType = "shortOnly" -> "shortBreak"
    [] cfg.scheduleType = "longOnly" -> "longBreak"
    [] OTHER -> IF n % cfg.longEvery = 0 THEN "longBreak" ELSE "shortBreak"

\* C1: a Cycles-mode run that completes naturally with targetCycles = N has
\* had exactly N Work phases and N-1 break phases when it finishes, and the
\* finishing expiry is that of a Work phase, with no next phase scheduled.
C1_CyclesRunHasNWorkPhases ==
  (cfg.runMode = "cycles" /\ last = "finish") =>
     /\ workPhases = cfg.targetCycles
     /\ breakPhases = cfg.targetCycles - 1
     /\ currentTimerType = "pomodoro"
     /\ ~pendingAutoStart

\* C2: in every state whose current phase is a break, the break type is the
\* one the rule gives for completedWorkIntervals (LongBreak iff
\* n % longBreakEvery = 0 under Standard, constant under ShortOnly/LongOnly).
C2_BreakTypeFollowsRule ==
  currentTimerType \in BreakTypes =>
     currentTimerType = BreakRule(pomodorosCompleted)

\* C3: cumulativeActiveSec + cumulativeBreakSec = elapsedWorkdayTime in every
\* reachable state.
C3_AccountingConservation ==
  cumulativeActiveSec + cumulativeBreakSec = elapsedWorkdayTime

\* C3 witness: seconds accounted tick by tick, then a restart whose recovery
\* adds a bulk catch-up to them
C3_Witness ==
  /\ last = "recover"
  /\ restarts = 1
  /\ cumulativeActiveSec > 2
  /\ C3_AccountingConservation

\* C4: a second writeDiarySnapshot right after a first one, with no
\* accounting in between, changes nothing in the diary (totals, per-profile
\* breakdown, baselines).
C4_SnapshotIdempotent ==
  LET once == WriteDiarySnapshot(diary, day, currentProfile, Current)
  IN WriteDiarySnapshot(once, day, currentProfile, Current) = once

\* C4 witness: accounted time that the first snapshot merges into the diary
C4_Witness ==
  /\ cumulativeActiveSec > 0 /\ cumulativeBreakSec > 0
  /\ diary[day].baseActive < cumulativeActiveSec
  /\ diary[day].baseBreak < cumulativeBreakSec
  /\ WriteDiarySnapshot(diary, day, currentProfile, Current) # diary

\* C5: recovery of a running checkpoint whose plannedEndAt has passed gives
\* the RunState the normal expiry of the checkpoint's phase gives (next
\* phase, completedWorkIntervals, finished or auto-starting) and accounts no
\* more than the phase's planned seconds.
C5_RecoveryEquivalence ==
  [][ ( /\ restarts' = restarts + 1
        /\ runtime # << >>
        /\ runtime[1].isRunning
        /\ now >= runtime[1].plannedEndAt )
      => LET rt == runtime[1]
             cl == [ Current EXCEPT !.currentTimerType = rt.currentType,
                                    !.pomodorosCompleted = rt.pomodorosCompleted,
                                    !.elapsedWorkdayTime = elapsedWorkdayTime' ]
             stop == WorkdayDone(cfg, cl) \/ CyclesDone(cfg, cl)
         IN /\ elapsedWorkdayTime' - elapsedWorkdayTime
                 <= (rt.plannedEndAt - rt.startedAt) \div 1000
            /\ IF stop
               THEN finishTimer' /\ ~pendingAutoStart'
               ELSE /\ pendingAutoStart'
                    /\ currentTimerType' =
                         IF rt.currentType = "pomodoro"
                         THEN BreakRule(rt.pomodorosCompleted + 1)
                         ELSE "pomodoro"
                    /\ pomodorosCompleted' = rt.pomodorosCompleted
                         + (IF rt.currentType = "pomodoro" THEN 1 ELSE 0)
    ]_vars

\* the totals the recorder is handed in a step: handleTimerEnd hands it the
\* accumulators of the render its caller was created in, handleReset those
\* of the current render
FinalizedTotals ==
  IF Finishes
  THEN onTimerEnd.cumulativeActiveSec + onTimerEnd.cumulativeBreakSec
  ELSE cumulativeActiveSec + cumulativeBreakSec

C7_StopDecision ==
  [][ /\ Expires =>
           ( Finishes <=>
               IF cfg.runMode = "workday"
               THEN elapsedWorkdayTime' >= cfg.workdayDuration
               ELSE /\ currentTimerType = "pomodoro"
                    /\ pomodorosCompleted + 1 >= cfg.targetCycles )
      /\ (cfg.runMode = "cycles" /\ isTimerRunning /\ ~isTimerRunning'
            /\ cumulativeActiveSec' + cumulativeBreakSec'
                 > cumulativeActiveSec + cumulativeBreakSec) => FALSE
    ]_vars

\* C8: in Workday mode a started run whose elapsedWorkdayTime has reached
\* workdayDuration is finalized (record appended, return to Idle scheduled);
\* it is not left paused in its unfinished phase.
C8_WorkdayReachedFinishes ==
  ( /\ cfg.runMode = "workday"
    /\ hasEverStarted
    /\ ~isTimerRunning
    /\ elapsedWorkdayTime >= cfg.workdayDuration )
  => finishTimer

\* C9: in Workday mode elapsedWorkdayTime never exceeds workdayDuration.
C9_ElapsedClampedToWorkday ==
  cfg.runMode = "workday" => elapsedWorkdayTime <= cfg.workdayDuration

\* C10: a non-terminal Work expiry increments completedWorkIntervals by one
\* and enters a break, a non-terminal break expiry enters Work, and the phase
\* entered is then running with its full nominal duration.
C10_AutoStartAlternation ==
  [][ /\ Continues =>
           IF currentTimerType = "pomodoro"
           THEN /\ pomodorosCompleted' = pomodorosCompleted + 1
                /\ currentTimerType' \in BreakTypes
           ELSE /\ pomodorosCompleted' = pomodorosCompleted
                /\ currentTimerType' = "pomodoro"
      /\ pendingAutoStart =>
           /\ isTimerRunning'
           /\ currentTimerType' = currentTimerType
           /\ remainingMsRef' = GetCurrentDuration(cfg, currentTimerType) * 1000
    ]_vars

\* a step in which the Timer invoked onTimerEnd
TimerFires == fired' > fired

\* C11: onTimerEnd is invoked at most once per started phase, and exactly
\* once when a poll of the running Timer finds remaining = 0, whichever of
\* tick, the fallback timeout and handleVisibility finds it and whichever
\* run after it; it is invoked only while running, against a deadline set
\* since the last pause or reset and reached.
C11_FiresOncePerPhase ==
  /\ [](fired <= 1)
  /\ [](remainingMsRef = 0 => fired = 1)
  /\ [][ TimerFires =>
           /\ isTimerRunning /\ ~endedRef
           /\ targetTsRef # Null /\ now >= targetTsRef
           /\ fired' = 1 ]_vars
  /\ [][ (~isTimerRunning \/ targetTsRef = Null) => ~TimerFires ]_vars

\* C11 witness: the page was hidden after the deadline was set, and the
\* fallback timeout made the one call
C11_Witness ==
  /\ fired = 1
  /\ ~visible
  /\ pendingAutoStart

\* a step that pauses the engine: Pause, or processDelta at the workday limit
Pauses ==
  /\ isTimerRunning /\ ~isTimerRunning'
  /\ hasEverStarted'
  /\ ~Expires

\* C12: a pause leaves remainingMsRef as it was and clears the deadline; the
\* deadline is next set to now + remainingMsRef; the Timer calls onTimerEnd
\* only when the phase has been running for its nominal duration, whatever
\* the pauses; remainingMsRef never exceeds the nominal duration of the
\* current phase.
C12_PauseFreezesPhaseClock ==
  /\ [](remainingMsRef <= GetCurrentDuration(cfg, currentTimerType) * 1000)
  /\ [][ Pauses => remainingMsRef' = remainingMsRef /\ targetTsRef' = Null ]_vars
  /\ [][ (targetTsRef = Null /\ targetTsRef' # Null) =>
           targetTsRef' = now + remainingMsRef ]_vars
  /\ [][ TimerFires =>
           phaseRunMs >= GetCurrentDuration(cfg, currentTimerType) * 1000 ]_vars

\* C12 witness: the only Work phase of a run was paused after it had run for
\* a while, resumed later (the checkpoint holds the resume instant) and then
\* expired
C12_Witness ==
  /\ last = "finish" /\ fired = 1
  /\ restarts = 0
  /\ runtime # << >>
  /\ runtime[1].startedAt + phaseRunMs > now
  /\ phaseRunMs >= GetCurrentDuration(cfg, currentTimerType) * 1000

\* C13: while the engine is not running no handler changes an accumulator or
\* elapsedWorkdayTime other than by zeroing it (a process restart, whose
\* recovery is not one of these events, aside); a resume sets lastTickRef to
\* the resume instant, and the seconds attributed since the engine last
\* started or resumed never exceed the time that has passed since then.
C13_NoAccountingWhilePaused ==
  /\ [][ (~isTimerRunning /\ restarts' = restarts) =>
           /\ elapsedWorkdayTime' \in {elapsedWorkdayTime, 0}
           /\ cumulativeActiveSec' \in {cumulativeActiveSec, 0}
           /\ cumulativeBreakSec' \in {cumulativeBreakSec, 0}
           /\ cumulativeShortBreakSec' \in {cumulativeShortBreakSec, 0}
           /\ cumulativeLongBreakSec' \in {cumulativeLongBreakSec, 0}
           /\ accountedActive' = accountedActive
           /\ accountedBreak' = accountedBreak ]_vars
  /\ [][ (~isTimerRunning /\ isTimerRunning' /\ restarts' = restarts) =>
           lastTickRef' = now ]_vars
  /\ [](isTimerRunning =>
          /\ lastTickRef # Null /\ stretchStart # Null
          /\ lastTickRef >= stretchStart
          /\ stretchSec * 1000 <= now - stretchStart)

\* C13 witness: a phase that ran, was paused for a second or more, was
\* resumed and has had a second accounted since
C13_Witness ==
  /\ restarts = 0
  /\ isTimerRunning
  /\ stretchStart # Null /\ stretchSec > 0
  /\ phaseRunMs > now - stretchStart
  /\ workPhases = 1 /\ breakPhases = 0
  /\ now - phaseRunMs >= 1000

\* a step in which processDelta attributed seconds
Accounts ==
  /\ restarts' = restarts
  /\ accountedActive' + accountedBreak' > accountedActive + accountedBreak

\* C14: in a running stretch lastTickRef is the stretch's start plus the
\* seconds attributed, so after any accounting call the seconds attributed
\* in the stretch are floor((now - start) / 1000) whatever the earlier calls
\* were; they go to the current phase's bucket, and a further call at the
\* same instant finds less than a second to attribute.
C14_AccountingIndependentOfCadence ==
  /\ []((isTimerRunning /\ lastTickRef # Null /\ stretchStart # Null) =>
          lastTickRef = stretchStart + stretchSec * 1000)
  /\ [][ Accounts =>
           LET added == (accountedActive' + accountedBreak')
                          - (accountedActive + accountedBreak)
           IN /\ stretchSec + added = (now - stretchStart) \div 1000
              /\ IF currentTimerType = "pomodoro"
                 THEN accountedBreak' = accountedBreak
                 ELSE accountedActive' = accountedActive
              /\ lastTickRef' # Null => now - lastTickRef' < 1000 ]_vars

\* C14 witness: seconds attributed in a stretch whose last half second is
\* still to be attributed
C14_Witness ==
  /\ isTimerRunning
  /\ stretchSec >= 1
  /\ now - stretchStart = stretchSec * 1000 + 500
  /\ lastTickRef = now - 500

\* C15: when the Timer calls onTimerEnd for a phase of D seconds that ran
\* without interruption from its start, D seconds have been attributed to
\* the phase since it started.
C15_FinalSecondAccounted ==
  [][ (TimerFires /\ stretchStart # Null /\ phaseRunMs = now - stretchStart) =>
        stretchSec = GetCurrentDuration(cfg, currentTimerType) ]_vars

\* a step that appends a SessionRecord
Records == Len(sessions') = Len(sessions) + 1

\* the reference rule: the seconds of the breaks with ordinals 1..n, each
\* classified by the scheduler's break-type rule
RECURSIVE RuleBreakSec(_)
RuleBreakSec(n) ==
  IF n <= 0 THEN 0
  ELSE RuleBreakSec(n - 1) + GetCurrentDuration(cfg, BreakRule(n))

C17_RecordCountsWorkPhases ==
  [][ Records =>
        sessions'[Len(sessions')].pomodoros =
          IF Finishes THEN workDone' ELSE workDone ]_vars

\* a step of handleReset (a later step that leaves last alone starts from
\* the state handleReset left)
Resets == last' = "reset" /\ events' = events + 1

Starts == ~hasEverStarted /\ hasEverStarted'
ReturnsToIdle == finishTimer /\ ~finishTimer' /\ restarts' = restarts

\* C19: right after Start the engine is running a full Work phase, and right
\* after the deferred reset of a natural finish it is idle; in both states
\* every accumulator, elapsedWorkdayTime and pomodorosCompleted are zero.
C19_RunsStartFromZero ==
  [][ (Starts \/ ReturnsToIdle) =>
        /\ isTimerRunning' = Starts
        /\ currentTimerType' = "pomodoro"
        /\ remainingMsRef' = cfg.pomodoroDuration * 1000
        /\ lastTickRef' = IF Starts THEN now ELSE Null
        /\ elapsedWorkdayTime' = 0
        /\ cumulativeActiveSec' = 0 /\ cumulativeBreakSec' = 0
        /\ cumulativeShortBreakSec' = 0 /\ cumulativeLongBreakSec' = 0
        /\ pomodorosCompleted' = 0 ]_vars

\* C19 witness: a run that accounted Work and break seconds finished by
\* itself, and a second run has just been started
C19_Witness ==
  /\ last = "start" /\ stretchStart = now /\ isTimerRunning
  /\ events = 0
  /\ accountedActive > 0 /\ accountedBreak > 0
  /\ cumulativeActiveSec = 0 /\ cumulativeShortBreakSec = 0

\* the diary's active and break totals summed over the days 0..d
RECURSIVE DiaryActiveUpTo(_)
DiaryActiveUpTo(d) ==
  IF d < 0 THEN 0 ELSE diary[d].active + DiaryActiveUpTo(d - 1)
RECURSIVE DiaryBreakUpTo(_)
DiaryBreakUpTo(d) ==
  IF d < 0 THEN 0 ELSE diary[d].brk + DiaryBreakUpTo(d - 1)

\* C20: the diary's active (break) totals summed over all days never exceed
\* the active (break) seconds attributed so far over all runs.
C20_NoSecondMergedTwice ==
  /\ DiaryActiveUpTo(MaxDay) <= accountedActive
  /\ DiaryBreakUpTo(MaxDay) <= accountedBreak

\* C21: at local midnight the rollover merges the deltas of its snapshot into
\* the entry of the day that just ended and leaves the new day's entry alone,
\* then elapsedWorkdayTime, cumulativeActiveSec and cumulativeBreakSec are
\* zero; no step other than one taken during a day changes that day's entry.
C21_RolloverCommitsToEndedDay ==
  /\ [][day' = day + 1 =>
          /\ diary'[day'] = diary[day']
          /\ diary'[day].active = diary[day].active
                + Max(0, cumulativeActiveSec - diary[day].baseActive)
          /\ diary'[day].brk = diary[day].brk
                + Max(0, cumulativeBreakSec - diary[day].baseBreak)
          /\ elapsedWorkdayTime' = 0
          /\ cumulativeActiveSec' = 0
          /\ cumulativeBreakSec' = 0]_vars
  /\ [][\A d \in Days : d < day => diary'[d] = diary[d]]_vars

\* the totals of entry e are at least those of entry f
EntryAtLeast(e, f) ==
  /\ e.active >= f.active /\ e.brk >= f.brk
  /\ e.short >= f.short /\ e.long >= f.long
  /\ e.poms >= f.poms /\ e.elapsed >= f.elapsed
  /\ \A p \in Profiles :
       /\ e.byProfile[p].active >= f.byProfile[p].active
       /\ e.byProfile[p].brk >= f.byProfile[p].brk
       /\ e.byProfile[p].poms >= f.byProfile[p].poms

\* C22: a step changes no diary entry other than that of the day it is taken
\* on, the totals of no diary entry decrease, and the session records already
\* stored stay, unchanged and in place, when a record is appended.
C22_HistoryNeverOverwritten ==
  [][/\ \A d \in Days : d # day' => diary'[d] = diary[d]
     /\ \A d \in Days : EntryAtLeast(diary'[d], diary[d])
     /\ Len(sessions') >= Len(sessions)
     /\ SubSeq(sessions', 1, Len(sessions)) = sessions]_vars

\* a snapshot was written on the second day while the first day's entry and
\* a session record were already stored
C22_Witness ==
  /\ day = 1
  /\ diary[0].active > 0 /\ diary[0].poms > 0
  /\ diary[1].active > 0
  /\ Len(sessions) >= 1

\* the process starts with a stored checkpoint that marks a phase as running
Recovers ==
  /\ restarts' = restarts + 1
  /\ runtime # << >>
  /\ runtime[1].isRunning

\* C23: when the process starts with a running checkpoint whose plannedEndAt
\* is not after now, recovery adds exactly the seconds from startedAt to
\* plannedEndAt to the bucket of the checkpoint's phase, and then makes the
\* expiry transition of that phase: a break checkpoint leads to Work.
C23_ExpiredRecoveryAccountsToPlannedEnd ==
  [][(Recovers /\ now >= runtime[1].plannedEndAt) =>
       LET rt == runtime[1]
           secs == (rt.plannedEndAt - rt.startedAt) \div 1000
           work == rt.currentType = "pomodoro"
       IN /\ cumulativeActiveSec' - cumulativeActiveSec
               = (IF work THEN secs ELSE 0)
          /\ cumulativeBreakSec' - cumulativeBreakSec
               = (IF work THEN 0 ELSE secs)
          /\ ~work => /\ currentTimerType' = "pomodoro"
                      /\ pendingAutoStart'
                      /\ pomodorosCompleted' = rt.pomodorosCompleted]_vars

\* C24: when the process starts with a running checkpoint whose plannedEndAt
\* is after now, the checkpoint's phase runs again with plannedEndAt - now
\* left on the Timer and with the checkpoint's pomodorosCompleted.
C24_ResumedRecoveryKeepsPlannedEnd ==
  [][(Recovers /\ now < runtime[1].plannedEndAt) =>
       /\ isTimerRunning'
       /\ currentTimerType' = runtime[1].currentType
       /\ remainingMsRef' = runtime[1].plannedEndAt - now
       /\ pomodorosCompleted' = runtime[1].pomodorosCompleted]_vars

\* C25: whenever a phase is running, a stored checkpoint marks it as running
\* and has the current phase type and the current pomodorosCompleted.
C25_CheckpointDescribesRunningPhase ==
  isTimerRunning =>
    /\ runtime # << >>
    /\ runtime[1].isRunning
    /\ runtime[1].currentType = currentTimerType
    /\ runtime[1].pomodorosCompleted = pomodorosCompleted

\* how many of the sounds in seq are in the set S
Count(seq, S) == Cardinality({ i \in 1..Len(seq) : seq[i] \in S })

\* C26: a step that starts the run or moves to a next phase announces exactly
\* one phase, the one it moves to, and neither plays the final chime nor says
\* the end; a step in which the run finishes plays the final chime once, says
\* the end once and announces no phase.
C26_OneNotificationPerTransition ==
  [][/\ (Starts \/ Continues) =>
          /\ Count(announced', TimerTypes) = 1
          /\ Count(announced', {currentTimerType'}) = 1
          /\ Count(announced', {"finalChime", "end"}) = 0
     /\ Finishes =>
          /\ Count(announced', {"finalChime"}) = 1
          /\ Count(announced', {"end"}) = 1
          /\ Count(announced', TimerTypes) = 0]_vars

\* a run that went through a break has just finished
C26_Witness ==
  /\ last = "finish"
  /\ workPhases >= 2 /\ breakPhases >= 1
  /\ Count(announced, {"end"}) = 1

\* some accumulator or elapsedWorkdayTime is set to zero: Start, and the
\* deferred reset after a finish
Zeroes == Starts \/ ReturnsToIdle

\* a step in which processDelta read a clock behind lastTickRef
ReadsClockBehind == last' = "clockAnomaly" /\ last # "clockAnomaly"

\* C27: a call of processDelta whose clock reading is earlier than
\* lastTickRef attributes zero seconds, and no step other than a zeroing
\* lowers elapsedWorkdayTime or a cumulative counter, whatever the wall clock
\* reads.
C27_ClockAnomalyAttributesNothing ==
  /\ [](\A t \in ClockReadings :
          (lastTickRef # Null /\ t < lastTickRef) =>
             DeltaSec(lastTickRef, t) = 0)
  /\ [][ReadsClockBehind =>
          /\ lastTickRef' = lastTickRef
          /\ <<elapsedWorkdayTime', cumulativeActiveSec', cumulativeBreakSec',
               cumulativeShortBreakSec', cumulativeLongBreakSec'>>
             = <<elapsedWorkdayTime, cumulativeActiveSec, cumulativeBreakSec,
                 cumulativeShortBreakSec, cumulativeLongBreakSec>>]_vars
  /\ [][~Zeroes =>
          /\ elapsedWorkdayTime' >= elapsedWorkdayTime
          /\ cumulativeActiveSec' >= cumulativeActiveSec
          /\ cumulativeBreakSec' >= cumulativeBreakSec
          /\ cumulativeShortBreakSec' >= cumulativeShortBreakSec
          /\ cumulativeLongBreakSec' >= cumulativeLongBreakSec]_vars

\* processDelta has read a clock behind lastTickRef in a break, with time
\* accounted in both buckets
C27_Witness ==
  /\ last = "clockAnomaly"
  /\ isTimerRunning /\ currentTimerType # "pomodoro"
  /\ cumulativeActiveSec > 0 /\ cumulativeBreakSec > 0

\* the Diary button or the autosave: a step that spends an intervention and
\* is not a Reset
Snapshots == events' = events + 1 /\ last' # "reset"

\* every accumulator, elapsedWorkdayTime and pomodorosCompleted are zero and
\* the Timer shows a full Work phase after the step
FreshRun ==
  /\ currentTimerType' = "pomodoro"
  /\ remainingMsRef' = cfg.pomodoroDuration * 1000
  /\ elapsedWorkdayTime' = 0
  /\ cumulativeActiveSec' = 0 /\ cumulativeBreakSec' = 0
  /\ cumulativeShortBreakSec' = 0 /\ cumulativeLongBreakSec' = 0
  /\ pomodorosCompleted' = 0
  /\ ~pendingAutoStart'

\* C28: the state in memory after Start, after a phase expiry, after Reset
\* and after a snapshot is determined by the state before it, whether
\* localStorage takes the writes or throws: Start gives a running fresh run,
\* Reset an idle one, an expiry finishes or moves to the next phase as
\* handleTimerEnd decides from its closure, and a snapshot changes nothing in
\* memory.
C28_FailedWriteLeavesMemoryAlone ==
  [][/\ Starts => isTimerRunning' /\ hasEverStarted' /\ FreshRun
     /\ Resets => ~isTimerRunning' /\ ~hasEverStarted' /\ FreshRun
     /\ TimerFires =>
          LET cl == onTimerEnd
              work == cl.currentTimerType = "pomodoro"
              done == WorkdayDone(cfg, cl) \/ CyclesDone(cfg, cl)
          IN /\ ~isTimerRunning'
             /\ finishTimer' = (finishTimer \/ done)
             /\ pendingAutoStart' = ~done
             /\ currentTimerType' =
                  IF done THEN currentTimerType
                  ELSE IF work THEN NextBreak(cfg, cl.pomodorosCompleted + 1)
                  ELSE "pomodoro"
             /\ pomodorosCompleted' =
                  IF ~done /\ work THEN cl.pomodorosCompleted + 1
                  ELSE pomodorosCompleted
             /\ UNCHANGED <<elapsedWorkdayTime, cumulativeActiveSec,
                            cumulativeBreakSec, cumulativeShortBreakSec,
                            cumulativeLongBreakSec, hasEverStarted>>
     /\ Snapshots => UNCHANGED <<appVars, refVars, timerVars>>]_vars

\* a Reset pressed while the storage was failing, after a transition whose
\* writes failed too: time was accounted and a pomodoro counted, nothing of
\* it was stored, and the engine is idle and zeroed
C28_Witness ==
  /\ storageFails
  /\ last = "reset"
  /\ accountedActive > 0 /\ accountedBreak > 0
  /\ runtime = << >> /\ sessions = << >> /\ diary = EmptyDiary
  /\ ~isTimerRunning /\ ~hasEverStarted /\ cumulativeActiveSec = 0

\* the accounted seconds that the next snapshot would add to today's entry
DiaryLagSec ==
  Max(0, cumulativeActiveSec - diary[day].baseActive)
    + Max(0, cumulativeBreakSec - diary[day].baseBreak)

\* C29: while the timer runs with the autosave interval in place, the
\* accounted time not yet merged into the diary stays within one autosave
\* period, give or take the second that processDelta may add at the instant
\* the interval is due.
C29_DiaryLagsAtMostOnePeriod ==
  (autosaveAt # Null /\ isTimerRunning) =>
     DiaryLagSec * 1000 < AutosaveIntervalMs + 1000

\* a step in which the Timer reported the end of a Work phase
WorkPhaseEnds == workDone' = workDone + 1

\* C30: the step in which a Work phase ends adds exactly one pomodoro to
\* the diary entry of the current day and to the current profile's count in
\* that entry.
C30_WorkPhaseAddsOnePomodoroToDiary ==
  [][WorkPhaseEnds =>
       /\ diary'[day].poms = diary[day].poms + 1
       /\ diary'[day].byProfile[currentProfile].poms
            = diary[day].byProfile[currentProfile].poms + 1]_vars

\* the engine is neither running nor between two phases of a run
Stopped == ~isTimerRunning /\ ~pendingAutoStart /\ ~finishTimer

\* C31: while the engine is stopped (paused, or idle after a run that
\* finished and returned to Idle) the stored checkpoint, if any, does not
\* say isRunning.
C31_CheckpointRunningOnlyWhileRunning ==
  Stopped => (runtime = << >> \/ ~runtime[1].isRunning)

\* C32: when the process starts with a running checkpoint, the seconds that
\* processDelta had accounted for the checkpointed phase since startedAt,
\* together with those the catch-up adds, do not exceed now - startedAt.
C32_RecoveryAccountsEachSecondOnce ==
  [][(Recovers /\ stretchStart = runtime[1].startedAt) =>
       (stretchSec + (accountedActive' - accountedActive)
                   + (accountedBreak' - accountedBreak)) * 1000
         <= now - runtime[1].startedAt]_vars

\* handleTimerEnd has finalized the run and appended its SessionRecord (the
\* totals it handed to writeSessionRecord were not empty), and the deferred
\* return to Idle is still to come; nothing has intervened in the run, so
\* onTimerEnd is still the closure that handleTimerEnd ran in
FinalizedWithRecord ==
  /\ finishTimer /\ last = "finish" /\ ~isTimerRunning
  /\ restarts = 0 /\ events = 0
  /\ onTimerEnd.cumulativeActiveSec + onTimerEnd.cumulativeBreakSec > 0

\* C33: between the finalization of a natural completion that appended the
\* run's SessionRecord and the deferred return to Idle, no step appends a
\* further record.
C33_OneRecordPerRun ==
  [][FinalizedWithRecord => Len(sessions') = Len(sessions)]_vars

\* the accumulators hold accounted time
HoldsTime == cumulativeActiveSec + cumulativeBreakSec > 0

\* C34: Start is never taken with time in the accumulators; a Reset that
\* zeroes accumulators holding time appends a SessionRecord in the same
\* step; and the return to Idle after a natural completion zeroes
\* accumulators holding time only when the session log has a record.
C34_NoTimeDiscardedUnrecorded ==
  [][/\ Starts => ~HoldsTime
     /\ (Resets /\ HoldsTime) => Records
     /\ (ReturnsToIdle /\ HoldsTime) => sessions # << >>]_vars

\* C35: in the state a Reset leaves, where the snapshot of handleReset has
\* been taken at the end of the run, the diary's active and brk totals
\* summed over the days equal the seconds accounted to Work and to breaks
\* over all runs so far.
C35_DiaryHoldsAllAccountedTime ==
  last = "reset" =>
    /\ DiaryActiveUpTo(MaxDay) = accountedActive
    /\ DiaryBreakUpTo(MaxDay) = accountedBreak

\* a checkpoint is written: startWorkday, resumeTimer, the auto-start effect
WritesCheckpoint == runtime' # runtime /\ runtime' # << >>

\* C36: the plannedEndAt of a checkpoint that is written is the instant at
\* which the Timer, started at that moment, expires the phase: now plus the
\* Timer's remaining time, which is the nominal duration for a fresh phase
\* and what the pause left for a resumed one.
C36_PlannedEndIsTimerDeadline ==
  [][WritesCheckpoint =>
       runtime'[1].plannedEndAt = now' + remainingMsRef']_vars

\* C37: in every reachable state the short-break and long-break
\* accumulators add up to the break accumulator.
C37_BreakSplitAddsUp ==
  cumulativeShortBreakSec + cumulativeLongBreakSec = cumulativeBreakSec

\* ------------------------------------------- the recorder on longer runs

\* completed Work intervals of the runs handed to the recorder
MaxRecordPoms == 3

\* Cycles settings whose long break is, and is not, a multiple of the short
\* break
RecordConfigs ==
  [ pomodoroDuration : {2}, shortBreakDuration : {1, 2},
    longBreakDuration : {2, 3}, workdayDuration : WorkdayDurationChoices,
    longEvery : {2, 3}, runMode : {"cycles"},
    targetCycles : {MaxRecordPoms + 1}, scheduleType : ScheduleTypes ]

\* the breaks with ordinals 1..n that the scheduler makes long
RuleLongCount(n) == Cardinality({ i \in 1..n : BreakRule(i) = "longBreak" })

\* a Cycles run at the instant its Work phase k + 1 has started, every phase
\* before it having run and been accounted for its nominal duration:
\* startWorkday for k = 0, handleTimerEnd and the auto-start effect for the
\* later ones.  The diary has the pomodoros that updatePomodorosOnly has seen
InitRecord ==
  /\ cfg \in RecordConfigs
  /\ pomodorosCompleted \in 0..MaxRecordPoms
  /\ isTimerRunning = TRUE
  /\ currentTimerType = "pomodoro"
  /\ cumulativeActiveSec = pomodorosCompleted * cfg.pomodoroDuration
  /\ cumulativeBreakSec = RuleBreakSec(pomodorosCompleted)
  /\ cumulativeLongBreakSec =
       RuleLongCount(pomodorosCompleted) * cfg.longBreakDuration
  /\ cumulativeShortBreakSec = cumulativeBreakSec - cumulativeLongBreakSec
  /\ elapsedWorkdayTime = cumulativeActiveSec + cumulativeBreakSec
  /\ pendingAutoStart = FALSE
  /\ hasEverStarted = TRUE
  /\ now = elapsedWorkdayTime * 1000
  /\ lastTickRef = TickEffect(TRUE, now)
  /\ finishTimer = FALSE
  /\ midnightPoms = pomodorosCompleted
  /\ autosaveAt = Null
  /\ remainingMsRef = cfg.pomodoroDuration * 1000
  /\ targetTsRef = Null
  /\ endedRef = FALSE
  /\ fallbackAt = now + cfg.pomodoroDuration * 1000 + 5
  /\ onTimerEnd = Current
  /\ runtime = << Checkpoint("pomodoro", now, cfg.pomodoroDuration,
                             pomodorosCompleted) >>
  /\ diary = [ EmptyDiary EXCEPT
                 ![0].poms = Max(0, pomodorosCompleted - 1),
                 ![0].basePoms = Max(0, pomodorosCompleted - 1),
                 ![0].byProfile["Default"].poms =
                    Max(0, pomodorosCompleted - 1) ]
  /\ sessions = << >>
  /\ currentProfile = "Default"
  /\ day = 0
  /\ restarts = 0
  /\ storageFails = FALSE
  /\ events = 0
  /\ last = IF pomodorosCompleted = 0 THEN "start" ELSE "autostart"
  /\ workPhases = pomodorosCompleted + 1
  /\ breakPhases = pomodorosCompleted
  /\ announced = IF pomodorosCompleted = 0 THEN StartWorkdaySounds
                 ELSE HandleTimerEndSounds(FALSE, "pomodoro")
  /\ visible = TRUE
  /\ workDone = pomodorosCompleted
  /\ fired = 0
  /\ phaseRunMs = 0
  /\ stretchStart = now
  /\ stretchSec = 0
  /\ accountedActive = cumulativeActiveSec
  /\ accountedBreak = cumulativeBreakSec

\* the run is ended with the Reset button, which hands the accumulators and
\* pomodorosCompleted to writeSessionRecord
NextRecord == HandleReset

SpecRecord == InitRecord /\ [][NextRecord]_vars

\* C38: in every Cycles record the short and long fields are the numbers of
\* short and of long breaks among the breaks 1..pomodoros-1, as the
\* scheduler's rule classifies them, times the short and the long break
\* duration.
C38_RecordSplitsBreaksByType ==
  [][(Records /\ cfg.runMode = "cycles") =>
       LET rec == sessions'[Len(sessions')]
           breaksCount == Max(0, rec.pomodoros - 1)
           longCount == RuleLongCount(breaksCount)
           shortCount == breaksCount - longCount
       IN /\ rec.short = shortCount * cfg.shortBreakDuration
          /\ rec.long = longCount * cfg.longBreakDuration]_vars

\* the sum of f over the set S
RECURSIVE SumOver(_, _)
SumOver(S, f) ==
  IF S = {} THEN 0
  ELSE LET x == CHOOSE y \in S : TRUE IN f[x] + SumOver(S \ {x}, f)

\* C39: in every entry of the diary the day's active, brk and poms totals
\* are the sums of the per-profile active, brk and poms.
C39_DayTotalsAreProfileSums ==
  \A d \in Days :
    LET e == diary[d]
    IN /\ e.active
            = SumOver(Profiles, [ p \in Profiles |-> e.byProfile[p].active ])
       /\ e.brk
            = SumOver(Profiles, [ p \in Profiles |-> e.byProfile[p].brk ])
       /\ e.poms
            = SumOver(Profiles, [ p \in Profiles |-> e.byProfile[p].poms ])

\* the entry of a day holds Work time under both profiles, break time, and a
\* pomodoro
C39_Witness ==
  /\ \A p \in Profiles : diary[day].byProfile[p].active > 0
  /\ diary[day].brk > 0
  /\ diary[day].poms > 0

\* SchedulePreview.getBreakType
GetBreakType(scheduleType, longEvery, completedPomodorosAfterNext) ==
  CASE scheduleType = "shortOnly" -> "shortBreak"
    [] scheduleType = "longOnly" -> "longBreak"
    [] OTHER -> IF /\ completedPomodorosAfterNext > 0
                   /\ longEvery > 0
                   /\ completedPomodorosAfterNext % longEvery = 0
                THEN "longBreak" ELSE "shortBreak"

\* SchedulePreview.getNextSegment with the props App passes: the type of the
\* segment shown under "Next:".  remainingPomodoros is targetCycles -
\* pomodorosCompleted in cycles mode and null, read as 0, in workday mode
GetNextSegment(c, currentType, poms) ==
  LET totalRemaining ==
        IF c.runMode = "cycles" THEN c.targetCycles - poms ELSE 0
  IN IF currentType = "pomodoro"
     THEN IF totalRemaining <= 1 THEN "pomodoro"
          ELSE GetBreakType(c.scheduleType, c.longEvery, poms + 1)
     ELSE "pomodoro"

\* C40: the phase entered when the Timer reports the end of the running
\* phase is the segment the preview showed as next, and while a Work phase
\* runs the preview shows no break to follow exactly when the Work interval
\* is the last of a Cycles run.
C40_PreviewAgreesWithScheduler ==
  /\ [][(isTimerRunning /\ Continues /\ restarts' = restarts) =>
          currentTimerType'
            = GetNextSegment(cfg, currentTimerType, pomodorosCompleted)]_vars
  /\ []((isTimerRunning /\ currentTimerType = "pomodoro") =>
          (GetNextSegment(cfg, currentTimerType, pomodorosCompleted)
             = "pomodoro"
           <=> (cfg.runMode = "cycles"
                /\ pomodorosCompleted + 1 >= cfg.targetCycles)))

====
